---- MODULE Spec2Model ----
(***************************************************************************)
(* Model of the GoodWe SEMS client (src/sems_client.py) and of the refresh *)
(* cycle that drives it (src/energy_common.py).                            *)
(*                                                                         *)
(* Conventions                                                             *)
(*  - Python None is the string "None"; a JSON scalar is a record          *)
(*    [t, n, s]: t its type, n its number, s its characters.               *)
(*  - A float is held in fixed point, in tenths: 500.0 is 5000.            *)
(*  - A uid the server sends as a JSON number is the string NumUid: it is  *)
(*    truthy and it is not a str.                                          *)
(***************************************************************************)
EXTENDS Integers, Sequences, FiniteSets, TLC

VARIABLES
    uid,          \* SEMSClient.uid
    token,        \* SEMSClient.token
    auth_token,   \* SEMSClient._auth_token: <<>> is None, else the JSON blob
    api_url,      \* SEMSClient.api_url
    session,      \* SEMSClient._session: "none", "open" or "closed"
    last_data,    \* SEMSClient._last_data: <<>> is None, else <<snapshot>>
    nLogin,       \* POSTs to CrossLogin sent by this client
    nDetail,      \* POSTs to GetMonitorDetailByPowerstationId sent
    nChart,       \* POSTs to GetPlantPowerChart sent
    everLoggedIn, \* some login() of this client returned True
    authFailAt,   \* nLogin when a telemetry POST first got an auth error, else -1
    last,         \* what the most recent call did and returned
    input,        \* the monitor-detail payload the normalizer is applied to
    pc            \* position of fetch_sems_data in its refresh cycle

vars == <<uid, token, auth_token, api_url, session, last_data, nLogin, nDetail,
          nChart, everLoggedIn, authFailAt, last, input, pc>>

client == <<uid, token, auth_token, api_url, session, last_data>>

(***************************************************************************)
(* Bounds                                                                  *)
(***************************************************************************)
\* requests of one kind a client sends before the model stops calling it
MaxCalls == 2
\* fetch_data calls applied to one payload in SpecNorm
MaxNormCalls == 1

(***************************************************************************)
(* JSON scalars and Python's conversions of them                           *)
(***************************************************************************)
None == "None"

Num(n)  == [t |-> "num",    n |-> n, s |-> <<>>]
Str(s)  == [t |-> "str",    n |-> 0, s |-> s]
Null    == [t |-> "null",   n |-> 0, s |-> <<>>]
Absent  == [t |-> "absent", n |-> 0, s |-> <<>>]

\* dict.get(key, default): the default stands in for a missing key only
Get(v, default) == IF v.t = "absent" THEN default ELSE v

\* Python truthiness of a JSON scalar
Truthy(v) ==
    CASE v.t = "num" -> v.n # 0
      [] v.t = "str" -> Len(v.s) > 0
      [] OTHER       -> FALSE

Digits == {"0", "1", "2", "3", "4", "5", "6", "7", "8", "9"}

DigitVal(c) ==
    CASE c = "0" -> 0 [] c = "1" -> 1 [] c = "2" -> 2 [] c = "3" -> 3
      [] c = "4" -> 4 [] c = "5" -> 5 [] c = "6" -> 6 [] c = "7" -> 7
      [] c = "8" -> 8 [] c = "9" -> 9

RECURSIVE DecVal(_)
\* the value of a string of decimal digits ("" is 0)
DecVal(s) ==
    IF Len(s) = 0 THEN 0
    ELSE DecVal(SubSeq(s, 1, Len(s) - 1)) * 10 + DigitVal(s[Len(s)])

\* the result of an expression that may raise
Ok(v)  == [ok |-> TRUE,  val |-> v]
Raised == [ok |-> FALSE, val |-> 0]

DotAt(s) ==
    IF \E i \in 1..Len(s) : s[i] = "."
    THEN CHOOSE i \in 1..Len(s) : s[i] = "." /\ \A j \in 1..(i - 1) : s[j] # "."
    ELSE Len(s) + 1

\* float(s) for s a str, in tenths. The strings of the model are made of
\* digits, '.', and unit characters, with at most one digit after the point:
\* float() accepts digits with at most one '.', and at least one digit.
FloatOfStr(s) ==
    LET dots   == {i \in 1..Len(s) : s[i] = "."}
        digits == {i \in 1..Len(s) : s[i] \in Digits}
        p      == DotAt(s)
    IN  IF /\ dots \cup digits = 1..Len(s)
           /\ Cardinality(dots) <= 1
           /\ digits # {}
        THEN Ok(DecVal(SubSeq(s, 1, p - 1)) * 10
                + (IF p < Len(s) THEN DigitVal(s[p + 1]) ELSE 0))
        ELSE Raised

\* float(v): TypeError for None, ValueError for a str that is no number
PyFloat(v) ==
    CASE v.t = "num" -> Ok(v.n * 10)
      [] v.t = "str" -> FloatOfStr(v.s)
      [] OTHER       -> Raised

\* int(v): TypeError for None, ValueError for a str that is no integer
PyInt(v) ==
    CASE v.t = "num" -> Ok(v.n)
      [] v.t = "str" -> IF Len(v.s) > 0 /\ \A i \in 1..Len(v.s) : v.s[i] \in Digits
                        THEN Ok(DecVal(v.s)) ELSE Raised
      [] OTHER       -> Raised

RECURSIVE LeadingNumeric(_)
\* re.match(r"([\d.]+)", s).group(1): the longest prefix of digits and dots
LeadingNumeric(s) ==
    IF Len(s) = 0 \/ s[1] \notin (Digits \cup {"."}) THEN <<>>
    ELSE <<s[1]>> \o LeadingNumeric(Tail(s))

\* _parse_power(val_str)
ParsePower(v) ==
    IF ~Truthy(v) \/ v.t # "str" THEN Ok(0)
    ELSE LET m == LeadingNumeric(v.s)
         IN  IF Len(m) = 0 THEN Ok(0) ELSE FloatOfStr(m)

(***************************************************************************)
(* The session state login() writes                                        *)
(***************************************************************************)
SEMS_API_BASE == "https://www.semsportal.com/api/"
Regional      == "https://eu.semsportal.com/api/"
NumUid        == "num:7"

AuthStateOf(t, u, a, url) == [token |-> t, uid |-> u, auth_token |-> a, api_url |-> url]

AuthState == AuthStateOf(token, uid, auth_token, api_url)

\* the state __init__ leaves
Fresh == AuthStateOf(None, None, <<>>, SEMS_API_BASE)

\* `if self.uid` / `not self.uid`
UidTruthy(u) == u \notin {None, ""}

\* json.dumps(auth_data) of login(), and the default blob of _token_string
\* (the timestamp, client and language entries are left out of both)
Blob(u, t)   == <<"uid", u, "token", t, "version", "v2.0.4">>
DefaultToken == <<"version", "v2.1.0">>

\* SEMSClient._token_string, the Token header of _get_headers()
TokenString(a) == IF a # <<>> THEN a ELSE DefaultToken

(***************************************************************************)
(* Responses of the CrossLogin endpoint                                    *)
(*   kind "transport": the POST raises aiohttp.ClientError                 *)
(*   kind "notjson":   the body is no JSON object                          *)
(*   kind "json":      a JSON object with the fields below; uid, tok are   *)
(*                     data.uid, data.token ("" when missing), api is the  *)
(*                     root "api" ("" when missing), agreement tells       *)
(*                     whether a key of data mentions an agreement         *)
(***************************************************************************)
LoginResp(k, he, c, d, u, t, a, ag) ==
    [kind |-> k, hasError |-> he, code |-> c, dataIsDict |-> d,
     uid |-> u, tok |-> t, api |-> a, agreement |-> ag]

LoginResponses ==
    {LoginResp("transport", FALSE, "absent", TRUE, "", "", "", FALSE),
     LoginResp("notjson",   FALSE, "absent", TRUE, "", "", "", FALSE),
     LoginResp("json", TRUE,  "absent", TRUE,  "u1", "t1", Regional, FALSE),
     LoginResp("json", FALSE, "100005", TRUE,  "u1", "t1", Regional, FALSE),
     LoginResp("json", FALSE, "0",      FALSE, "",   "",   Regional, FALSE),
     LoginResp("json", FALSE, "absent", TRUE,  "u1", "t1", "",       FALSE),
     LoginResp("json", FALSE, "0",      TRUE,  "",   "",   "",       TRUE)}
    \cup {LoginResp("json", FALSE, "0", TRUE, u, t, a, FALSE) :
            u \in {"", "u1", NumUid}, t \in {"", "t1"}, a \in {"", Regional}}

\* login(), line 146: `has_error is True or (code is not None and code != 0)`
LoginRejected(r) == r.hasError \/ r.code \notin {"absent", "0"}

\* a login that leaves the base URL alone
LoginWrites_keepsBase(st, r) ==
    LET u == r.uid
        t == IF r.tok = "" /\ UidTruthy(u) THEN u ELSE r.tok
    IN  AuthStateOf(t, u, Blob(r.uid, r.tok), st.api_url)

\* login(), lines 155-179: the assignments made once the body has passed the
\* error checks, before the uid is looked at
LoginWrites(st, r) ==
    LET u == r.uid
        t == IF r.tok = "" /\ UidTruthy(u) THEN u ELSE r.tok
    IN  AuthStateOf(t, u, Blob(r.uid, r.tok),
                    IF r.api # "" THEN r.api ELSE st.api_url)

\* login(), lines 181-188, w the session state lines 155-179 have written
LoginVerdict(w, r) ==
    IF UidTruthy(w.uid)
    THEN \* line 182 slices self.uid: a uid that is no str raises there, and
         \* line 193 turns the exception into a failed login
         IF w.uid = NumUid
         THEN [ok |-> FALSE, msg |-> "Error", st |-> w]
         ELSE [ok |-> TRUE, msg |-> "Login successful", st |-> w]
    ELSE IF r.agreement
    THEN [ok |-> FALSE, msg |-> "Please accept the agreements", st |-> w]
    ELSE [ok |-> FALSE, msg |-> "Login response missing uid", st |-> w]

\* login(): [ok, msg, st], st the session state the call leaves
Login(st, r) ==
    CASE r.kind = "transport" ->
            [ok |-> FALSE, msg |-> "Connection error", st |-> st]
      [] r.kind = "notjson" ->
            [ok |-> FALSE, msg |-> "Error", st |-> st]
      [] OTHER ->
            IF LoginRejected(r)
            THEN [ok |-> FALSE, msg |-> "Login failed", st |-> st]
            ELSE IF ~r.dataIsDict
            THEN [ok |-> FALSE, msg |-> "Unexpected response format", st |-> st]
            ELSE LoginVerdict(LoginWrites(st, r), r)

\* SEMSClient._ensure_session
EnsureSession(s) == IF s \in {"none", "closed"} THEN "open" ELSE s

(***************************************************************************)
(* The monitor-detail payload and its normalization (fetch_data, 325-425)  *)
(*   plant.pac        kpi.pac                                              *)
(*   plant.soc        soc.power, Absent when the soc section is missing    *)
(*   plant.homeKit    Shape A: shape "absent", "empty" ({}) or "dict"      *)
(*   plant.powerflow  Shape B: shape "absent", "empty" ({}) or "dict"      *)
(* The inverter section is taken as missing and kpi.power, kpi.total_power *)
(* as numbers: they feed none of the five quantities below.                *)
(***************************************************************************)
HomeKit(sh, c, dc, g, ge, l) ==
    [shape |-> sh, pCharge |-> c, pDisCharge |-> dc, pGrid |-> g,
     pGridExport |-> ge, pLoad |-> l]

Powerflow(sh, pv, b, bs, g, gs, l, soc) ==
    [shape |-> sh, pv |-> pv, bettery |-> b, betteryStatus |-> bs, grid |-> g,
     gridStatus |-> gs, load |-> l, soc |-> soc]

Plant(pac, soc, hk, pf) == [pac |-> pac, soc |-> soc, homeKit |-> hk, powerflow |-> pf]

NoHomeKit    == HomeKit("absent", Absent, Absent, Absent, Absent, Absent)
EmptyHomeKit == HomeKit("empty", Absent, Absent, Absent, Absent, Absent)
NoPowerflow  == Powerflow("absent", Absent, Absent, 0, Absent, 0, Absent, Absent)

\* InverterData(timestamp=...): the fields the dashboards read
InverterData ==
    [pv_power |-> 0, battery_power |-> 0, grid_power |-> 0, load_power |-> 0,
     battery_soc |-> 0, error_message |-> None]

\* an exception inside the try block: line 430 stores str(e) and the
\* assignments made so far stay in the record
Raise(d) == [d EXCEPT !.error_message = "exception"]

Failed(d) == d.error_message # None

\* `data.<field> = <r> * k`, r the result of a conversion that may raise.
\* A statement is skipped once an earlier one of the try block has raised.
Assign(d, field, r, k) ==
    IF Failed(d) THEN d
    ELSE IF ~r.ok THEN Raise(d)
    ELSE [d EXCEPT ![field] = r.val * k]

\* `v = _parse_power(...)`, then `if v > 0: data.<field> = v`
AssignIfPositive(d, field, r) ==
    IF Failed(d) THEN d
    ELSE IF ~r.ok THEN Raise(d)
    ELSE IF r.val > 0 THEN [d EXCEPT ![field] = r.val]
    ELSE d

\* `v = _parse_power(...)`, then `if status == -1: data.<field> = -v`,
\* `elif status == 1: data.<field> = v`
AssignByStatus(d, field, r, status) ==
    IF Failed(d) THEN d
    ELSE IF ~r.ok THEN Raise(d)
    ELSE IF status = -1 THEN [d EXCEPT ![field] = -r.val]
    ELSE IF status = 1 THEN [d EXCEPT ![field] = r.val]
    ELSE d

\* line 335: kW to W
SetPvPower(d, plant) == Assign(d, "pv_power", PyFloat(Get(plant.pac, Num(0))), 1000)

\* lines 353-354: `if soc_data:` holds for a soc section with a key in it
SetSoc(d, plant) ==
    IF plant.soc.t = "absent" THEN d
    ELSE Assign(d, "battery_soc", PyInt(plant.soc), 1)

\* a discharge stored with the sign of a charge
HomeKitDisCharge_positive(d, hk) ==
    IF ~Truthy(hk.pDisCharge) THEN d
    ELSE Assign(d, "battery_power", PyFloat(hk.pDisCharge), 1000)

\* lines 362-363: `if home_kit.get("pDisCharge"):`
HomeKitDisCharge(d, hk) ==
    IF ~Truthy(hk.pDisCharge) THEN d
    ELSE Assign(d, "battery_power", PyFloat(hk.pDisCharge), -1000)

\* lines 361-363: positive = charging, negative = discharging
HomeKitBattery(d, hk) ==
    HomeKitDisCharge(
        Assign(d, "battery_power", PyFloat(Get(hk.pCharge, Num(0))), 1000), hk)

\* lines 367-368: `if home_kit.get("pGridExport"):`
HomeKitGridExport(d, hk) ==
    IF ~Truthy(hk.pGridExport) THEN d
    ELSE Assign(d, "grid_power", PyFloat(hk.pGridExport), -1000)

\* lines 366-368: positive = import, negative = export
HomeKitGrid(d, hk) ==
    HomeKitGridExport(
        Assign(d, "grid_power", PyFloat(Get(hk.pGrid, Num(0))), 1000), hk)

\* line 371
HomeKitLoad(d, hk) == Assign(d, "load_power", PyFloat(Get(hk.pLoad, Num(0))), 1000)

\* line 359: `if home_kit:`
UseHomeKit(plant) == plant.homeKit.shape = "dict"

\* a powerflow section applied whether or not homeKit is there
UsePowerflow_always(plant) == plant.powerflow.shape = "dict"

\* line 375: `if powerflow and not home_kit:`
UsePowerflow(plant) == plant.powerflow.shape = "dict" /\ plant.homeKit.shape # "dict"

\* lines 359-371
ApplyHomeKit(d, plant) ==
    IF ~UseHomeKit(plant) THEN d
    ELSE HomeKitLoad(HomeKitGrid(HomeKitBattery(d, plant.homeKit), plant.homeKit),
                     plant.homeKit)

\* lines 387-389
PowerflowPv(d, pf) ==
    AssignIfPositive(d, "pv_power", ParsePower(Get(pf.pv, Str(<<"0">>))))

\* a battery magnitude stored without looking at betteryStatus
PowerflowBattery_unsigned(d, pf) ==
    AssignIfPositive(d, "battery_power", ParsePower(Get(pf.bettery, Str(<<"0">>))))

\* lines 392-397: betteryStatus -1 = discharging, 1 = charging
PowerflowBattery(d, pf) ==
    AssignByStatus(d, "battery_power", ParsePower(Get(pf.bettery, Str(<<"0">>))),
                   pf.betteryStatus)

\* lines 400-405: gridStatus -1 = exporting, 1 = importing
PowerflowGrid(d, pf) ==
    AssignByStatus(d, "grid_power", ParsePower(Get(pf.grid, Str(<<"0">>))),
                   pf.gridStatus)

\* lines 408-410
PowerflowLoad(d, pf) ==
    AssignIfPositive(d, "load_power", ParsePower(Get(pf.load, Str(<<"0">>))))

\* a powerflow soc that is never applied
PowerflowSoc_ignored(d, pf) == d

\* lines 413-415: `if pf_soc is not None:`
PowerflowSoc(d, pf) ==
    IF pf.soc.t \in {"absent", "null"} THEN d
    ELSE Assign(d, "battery_soc", PyInt(pf.soc), 1)

\* lines 374-415
ApplyPowerflow(d, plant) ==
    IF ~UsePowerflow(plant) THEN d
    ELSE PowerflowSoc(
            PowerflowLoad(
                PowerflowGrid(
                    PowerflowBattery(
                        PowerflowPv(d, plant.powerflow),
                        plant.powerflow),
                    plant.powerflow),
                plant.powerflow),
            plant.powerflow)

\* lines 325-419: the record fetch_data holds when it leaves the parsing
\* code, by line 425 or by the except clause of line 428
Normalize(plant) ==
    ApplyPowerflow(ApplyHomeKit(SetSoc(SetPvPower(InverterData, plant), plant), plant),
                   plant)

(***************************************************************************)
(* Responses of the two telemetry endpoints                                *)
(*   kind "transport": the POST raises                                     *)
(*   kind "empty":     an empty body                                       *)
(*   kind "notjson":   json.loads raises                                   *)
(*   kind "nondict":   JSON that is no object                              *)
(*   kind "hasError":  {"hasError": true, "msg": msg}, msg "" when missing *)
(*   kind "data":      {"hasError": false, "data": ...}                    *)
(***************************************************************************)
AuthExpired == "The authorization has expired, please log in again."

DetailResp(k, m, pl) == [kind |-> k, msg |-> m, plant |-> pl]

ChartResp(k, m, ls) == [kind |-> k, msg |-> m, lines |-> ls]

\* fetch_chart_data, lines 450-459, for the one date of the cycle
ChartResult ==
    [error |-> None, pv_power |-> <<>>, battery_power |-> <<>>,
     meter_power |-> <<>>, load_power |-> <<>>, soc |-> <<>>]

\* lines 513-519; None for a key the mapping does not hold
KeyMapping(k) ==
    CASE k = "PCurve_Power_PV"      -> "pv_power"
      [] k = "PCurve_Power_Battery" -> "battery_power"
      [] k = "PCurve_Power_Meter"   -> "meter_power"
      [] k = "PCurve_Power_Load"    -> "load_power"
      [] k = "PCurve_Power_SOC"     -> "soc"
      [] OTHER                      -> None

\* lines 527-532: (timestamp, value) of each point, `y or 0.0` for the value
PointsOf(xy) ==
    [i \in 1..Len(xy) |-> <<xy[i].x, IF Truthy(xy[i].y) THEN xy[i].y.n ELSE 0>>]

RECURSIVE ExtractLines(_, _)
\* lines 521-532
ExtractLines(result, lines) ==
    IF lines = <<>> THEN result
    ELSE LET rk == KeyMapping(Head(lines).key)
         IN  ExtractLines(IF rk = None THEN result
                          ELSE [result EXCEPT ![rk] = @ \o PointsOf(Head(lines).xy)],
                          Tail(lines))

(***************************************************************************)
(* fetch_data and fetch_chart_data                                         *)
(***************************************************************************)
\* a fetch that goes on with an empty station id
StationMissing_never(station_id) == FALSE

\* lines 275 and 461: `if not station_id:`
StationMissing(station_id) == station_id = ""

\* a fetch that logs in before every request
ShouldLogin_always(u) == TRUE

\* lines 279 and 465: `if not self.uid:`
ShouldLogin(u) == ~UidTruthy(u)

\* What a call did: the requests it sent, with the header and the URL of
\* each, the session state before it (pre) and after its login (mid), the
\* HTTP session it found (preSession) and the "api" of its login response.
CallRecord(op, station, pre) ==
    [op |-> op, station |-> station, data |-> InverterData, chart |-> ChartResult,
     logins |-> 0, loginOk |-> FALSE, posts |-> 0, pre |-> pre, mid |-> pre,
     loginHeader |-> <<>>, postHeader |-> <<>>, postUrl |-> "",
     authedAtPost |-> FALSE, st |-> pre, session |-> "none", ever |-> FALSE,
     store |-> FALSE, authFail |-> FALSE, preSession |-> "none", loginApi |-> ""]

\* lines 280-283 and 466-469: the call record and the message once login()
\* has returned l; the message is None when the call goes on to its POST
AfterLogin(c, l, lr) ==
    [call |-> [c EXCEPT !.logins = 1, !.loginOk = l.ok, !.mid = l.st, !.st = l.st,
                        !.ever = c.ever \/ l.ok,
                        !.loginHeader = TokenString(c.pre.auth_token),
                        !.loginApi = lr.api,
                        !.session = EnsureSession(c.session)],
     msg |-> IF l.ok THEN None ELSE l.msg]

\* lines 275-283 and 461-469: the station check and the login
Prologue(c, lr) ==
    IF StationMissing(c.station)
    THEN [call |-> c, msg |-> "Station ID is required"]
    ELSE IF ShouldLogin(c.pre.uid)
    THEN AfterLogin(c, Login(c.pre, lr), lr)
    ELSE [call |-> c, msg |-> None]

\* the record of a call that starts in session state st
StartCall(op, st, sess, ever, station) ==
    [CallRecord(op, station, st) EXCEPT !.session = sess, !.preSession = sess,
                                        !.ever = ever]

\* a request that is sent again after the first answer
Post_twice(c) ==
    [c EXCEPT !.posts = 2, !.session = EnsureSession(c.session),
              !.postHeader = TokenString(c.st.auth_token),
              !.postUrl = c.st.api_url, !.authedAtPost = c.ever]

\* lines 285-305 and 471-481: the POST of a telemetry request
Post(c) ==
    [c EXCEPT !.posts = 1, !.session = EnsureSession(c.session),
              !.postHeader = TokenString(c.st.auth_token),
              !.postUrl = c.st.api_url, !.authedAtPost = c.ever]

\* lines 306-432: what fetch_data makes of the response
DetailOutcome(dr) ==
    CASE dr.kind = "transport" -> Raise(InverterData)
      [] dr.kind = "empty"     ->
            [InverterData EXCEPT !.error_message = "Empty response from API"]
      [] dr.kind = "notjson"   -> Raise(InverterData)
      [] dr.kind = "nondict"   ->
            [InverterData EXCEPT !.error_message = "Invalid response format"]
      [] dr.kind = "hasError"  ->
            [InverterData EXCEPT !.error_message =
                IF dr.msg = "" THEN "Failed to fetch data" ELSE dr.msg]
      [] OTHER                 -> Normalize(dr.plant)

\* a fetch_data that remembers whatever it returns
Stores_always(dr, d) == TRUE

\* line 425, reached when the body was a JSON object without hasError and
\* the parsing raised nothing
Stores(dr, d) == dr.kind = "data" /\ ~Failed(d)

\* lines 285-432, p the outcome of lines 275-283
FetchDataBody(p, d, dr) ==
    IF p.msg # None
    THEN [p.call EXCEPT !.data = [InverterData EXCEPT !.error_message = p.msg]]
    ELSE [Post(p.call) EXCEPT !.data = d,
                              !.store = Stores(dr, d),
                              !.authFail = dr.kind = "hasError" /\ dr.msg = AuthExpired]

\* fetch_data(station_id)
FetchDataCall(st, sess, ever, station, lr, dr) ==
    FetchDataBody(Prologue(StartCall("fetch_data", st, sess, ever, station), lr),
                  DetailOutcome(dr), dr)

\* lines 482-540: what fetch_chart_data makes of the response
ChartOutcome(cr) ==
    CASE cr.kind = "transport" -> [ChartResult EXCEPT !.error = "exception"]
      [] cr.kind = "empty"     -> [ChartResult EXCEPT !.error = "Empty response from API"]
      [] cr.kind = "notjson"   -> [ChartResult EXCEPT !.error = "exception"]
      [] cr.kind = "nondict"   -> [ChartResult EXCEPT !.error = "Invalid response format"]
      [] cr.kind = "hasError"  ->
            [ChartResult EXCEPT !.error = IF cr.msg = "" THEN "Unknown error" ELSE cr.msg]
      [] OTHER                 -> ExtractLines(ChartResult, cr.lines)

\* lines 471-540, p the outcome of lines 461-469
FetchChartBody(p, cr) ==
    IF p.msg # None
    THEN [p.call EXCEPT !.chart = [ChartResult EXCEPT !.error = p.msg]]
    ELSE [Post(p.call) EXCEPT !.chart = ChartOutcome(cr),
                              !.authFail = cr.kind = "hasError" /\ cr.msg = AuthExpired]

\* fetch_chart_data(station_id, date)
FetchChartCall(st, sess, ever, station, lr, cr) ==
    FetchChartBody(Prologue(StartCall("fetch_chart_data", st, sess, ever, station), lr),
                   cr)

(***************************************************************************)
(* Inputs                                                                  *)
(***************************************************************************)
Stations == {"", "S1"}

W500   == <<"5", "0", "0", "(", "W", ")">>
W1p5   == <<"1", ".", "5", "(", "W", ")">>
W0     == <<"0", "(", "W", ")">>
WNone  == <<"W">>
WDot   == <<".">>
W1p2p3 == <<"1", ".", "2", ".", "3", "(", "W", ")">>

\* what a powerflow magnitude field may hold
Magnitudes ==
    {Str(W500), Str(W1p5), Str(W0), Str(WNone), Str(WDot), Str(W1p2p3),
     Str(<<>>), Null, Num(500), Absent}

Statuses == {-1, 0, 1}

\* the values tried for each field of a homeKit section
Charges      == {Num(0), Num(2), Null, Absent}
DisCharges   == {Absent, Num(0), Num(1)}
GridImports  == {Num(0), Num(3), Null}
GridExports  == {Absent, Num(0), Num(4)}
Loads        == {Num(1), Num(-1), Null}

\* the values tried for each field of a powerflow section
PvStrings    == {Str(W0), Str(W500), Str(WDot)}
GridStrings  == {Str(W500), Str(W1p2p3), Null}
LoadStrings  == {Str(W500), Str(WNone)}
FlowSocs     == {Absent, Null, Num(55)}

\* the powerflow sections a payload with a homeKit section is tried with
FewPowerflows ==
    {NoPowerflow,
     Powerflow("empty", Absent, Absent, 0, Absent, 0, Absent, Absent)}
    \cup {Powerflow("dict", Str(W500), b, bs, Str(W1p5), -1, Str(W500), soc) :
            b \in {Str(W500), Str(W1p2p3)}, bs \in {-1, 1}, soc \in {Null, Num(55)}}

Pacs == {Num(3), Num(-1), Null}
Socs == {Absent, Num(40)}

\* the payloads the normalizer is applied to: every homeKit section with a
\* few powerflow sections, and every powerflow section without a homeKit
IsPayload(p) ==
    \E pac \in Pacs, soc \in Socs :
        \/ \E c \in Charges, dc \in DisCharges, g \in GridImports,
              ge \in GridExports, l \in Loads, pf \in FewPowerflows :
                p = Plant(pac, soc, HomeKit("dict", c, dc, g, ge, l), pf)
        \/ \E hk \in {NoHomeKit, EmptyHomeKit}, pv \in PvStrings, b \in Magnitudes,
              bs \in Statuses, g \in GridStrings, gs \in Statuses,
              l \in LoadStrings, soc2 \in FlowSocs :
                p = Plant(pac, soc, hk, Powerflow("dict", pv, b, bs, g, gs, l, soc2))
        \/ \E hk \in {NoHomeKit, EmptyHomeKit} : p = Plant(pac, soc, hk, NoPowerflow)

PlantA == Plant(Num(3), Num(40),
                HomeKit("dict", Num(2), Num(0), Num(0), Num(4), Num(1)),
                Powerflow("dict", Str(W500), Str(W500), -1, Str(W500), 1, Str(W500), Num(55)))
PlantB == Plant(Num(3), Num(40), NoHomeKit,
                Powerflow("dict", Str(W500), Str(W500), -1, Str(W500), 1, Str(W500), Num(55)))
PlantBad == Plant(Num(3), Absent, NoHomeKit,
                  Powerflow("dict", Str(W500), Str(W1p2p3), 1, Str(W500), 1, Str(W500), Null))

DetailResponses ==
    {DetailResp(k, "", PlantA) : k \in {"transport", "empty", "notjson", "nondict"}}
    \cup {DetailResp("hasError", m, PlantA) : m \in {"", AuthExpired}}
    \cup {DetailResp("data", "", pl) : pl \in {PlantA, PlantB, PlantBad}}

Line(k, xy) == [key |-> k, xy |-> xy]
Point(x, y) == [x |-> x, y |-> y]

SampleLines ==
    <<Line("PCurve_Power_PV", <<Point("10:00", Num(1000)), Point("10:05", Null)>>),
      Line("PCurve_Power_SOC", <<Point("10:00", Num(80))>>),
      Line("PCurve_Other", <<Point("10:00", Num(1))>>)>>

\* a chart with every curve, two points each, five minutes apart
FullLines ==
    <<Line("PCurve_Power_PV", <<Point("10:00", Num(1000)), Point("10:05", Null)>>),
      Line("PCurve_Power_Battery", <<Point("10:00", Num(600)), Point("10:05", Num(-300))>>),
      Line("PCurve_Power_Meter", <<Point("10:00", Num(-200)), Point("10:05", Num(500))>>),
      Line("PCurve_Power_Load", <<Point("10:00", Num(400)), Point("10:05", Num(1200))>>),
      Line("PCurve_Power_SOC", <<Point("10:00", Num(80)), Point("10:05", Num(81))>>)>>

ChartResponses ==
    {ChartResp(k, "", <<>>) : k \in {"transport", "empty", "notjson", "nondict"}}
    \cup {ChartResp("hasError", m, <<>>) : m \in {"", AuthExpired}}
    \cup {ChartResp("data", "", ls) : ls \in {<<>>, SampleLines, FullLines}}

\* a CrossLogin response login() accepts
GoodLogin == LoginResp("json", FALSE, "0", TRUE, "u1", "t1", Regional, FALSE)

(***************************************************************************)
(* Actions                                                                 *)
(***************************************************************************)
\* the state a call leaves, from its call record
Apply(c) ==
    /\ uid' = c.st.uid
    /\ token' = c.st.token
    /\ auth_token' = c.st.auth_token
    /\ api_url' = c.st.api_url
    /\ session' = c.session
    /\ everLoggedIn' = c.ever
    /\ last_data' = IF c.store THEN <<c.data>> ELSE last_data
    /\ nLogin' = nLogin + c.logins
    /\ authFailAt' = IF authFailAt = -1 /\ c.authFail
                     THEN nLogin + c.logins ELSE authFailAt
    /\ last' = c

\* SEMSClient.__init__ (lines 73-82), as the callers run it:
\* energy_common.py line 79, sems_client.py line 556
NewClient ==
    /\ uid' = Fresh.uid
    /\ token' = Fresh.token
    /\ auth_token' = Fresh.auth_token
    /\ api_url' = Fresh.api_url
    /\ session' = "none"
    /\ last_data' = <<>>
    /\ nLogin' = 0
    /\ nDetail' = 0
    /\ nChart' = 0
    /\ everLoggedIn' = FALSE
    /\ authFailAt' = -1
    /\ last' = CallRecord("init", "", Fresh)

\* the state fetch_data leaves
ApplyFetchData(c) ==
    /\ Apply(c)
    /\ nDetail' = nDetail + c.posts
    /\ nChart' = nChart

\* the state fetch_chart_data leaves
ApplyFetchChart(c) ==
    /\ Apply(c)
    /\ nChart' = nChart + c.posts
    /\ nDetail' = nDetail

FetchDataOp(station, lr, dr) ==
    /\ nLogin < MaxCalls
    /\ nDetail < MaxCalls
    /\ ApplyFetchData(FetchDataCall(AuthState, session, everLoggedIn, station, lr, dr))

FetchChartOp(station, lr, cr) ==
    /\ nLogin < MaxCalls
    /\ nChart < MaxCalls
    /\ ApplyFetchChart(FetchChartCall(AuthState, session, everLoggedIn, station, lr, cr))

\* a close() that also forgets the login
CloseOp_invalidating ==
    /\ session' = IF session = "open" THEN "closed" ELSE session
    /\ uid' = None
    /\ token' = None
    /\ auth_token' = <<>>
    /\ last' = [CallRecord("close", "", AuthState) EXCEPT !.session = session',
                                                         !.preSession = session]
    /\ UNCHANGED <<api_url, last_data, nLogin, nDetail, nChart, everLoggedIn,
                   authFailAt>>

\* SEMSClient.close (lines 109-112)
CloseOp ==
    /\ session' = IF session = "open" THEN "closed" ELSE session
    /\ last' = [CallRecord("close", "", AuthState) EXCEPT !.session = session',
                                                         !.preSession = session]
    /\ UNCHANGED <<uid, token, auth_token, api_url, last_data, nLogin, nDetail,
                   nChart, everLoggedIn, authFailAt>>

Init ==
    /\ uid = Fresh.uid
    /\ token = Fresh.token
    /\ auth_token = Fresh.auth_token
    /\ api_url = Fresh.api_url
    /\ session = "none"
    /\ last_data = <<>>
    /\ nLogin = 0
    /\ nDetail = 0
    /\ nChart = 0
    /\ everLoggedIn = FALSE
    /\ authFailAt = -1
    /\ last = CallRecord("init", "", Fresh)
    /\ input = PlantA
    /\ pc = "idle"

(***************************************************************************)
(* Spec: one client, its operations called in any order                    *)
(***************************************************************************)
Construct == NewClient /\ UNCHANGED <<input, pc>>

\* the CrossLogin responses a call may meet: a call that sends no login
\* request meets none, and GoodLogin stands in for the unused argument
LoginResponsesFor(station) ==
    IF StationMissing(station) \/ ~ShouldLogin(uid) THEN {GoodLogin} ELSE LoginResponses

FetchData ==
    \E station \in Stations, dr \in DetailResponses :
        \E lr \in LoginResponsesFor(station) :
            FetchDataOp(station, lr, dr) /\ UNCHANGED <<input, pc>>

FetchChartData ==
    \E station \in Stations, cr \in ChartResponses :
        \E lr \in LoginResponsesFor(station) :
            FetchChartOp(station, lr, cr) /\ UNCHANGED <<input, pc>>

Close == CloseOp /\ UNCHANGED <<input, pc>>

Next == Construct \/ FetchData \/ FetchChartData \/ Close

Spec == Init /\ [][Next]_vars

(***************************************************************************)
(* SpecCycle: fetch_sems_data (energy_common.py, lines 79-90), one refresh *)
(* cycle after another                                                     *)
(***************************************************************************)
\* line 79, past the credentials check of line 73
CycleStart ==
    /\ pc = "idle"
    /\ NewClient
    /\ pc' = "fetch_data"
    /\ UNCHANGED input

\* line 83
CycleFetchData ==
    /\ pc = "fetch_data"
    /\ \E dr \in DetailResponses :
          \E lr \in LoginResponsesFor("S1") : FetchDataOp("S1", lr, dr)
    /\ pc' = "fetch_chart_data"
    /\ UNCHANGED input

\* line 84
CycleFetchChart ==
    /\ pc = "fetch_chart_data"
    /\ \E cr \in ChartResponses :
          \E lr \in LoginResponsesFor("S1") : FetchChartOp("S1", lr, cr)
    /\ pc' = "close"
    /\ UNCHANGED input

\* line 90
CycleClose ==
    /\ pc = "close"
    /\ CloseOp
    /\ pc' = "idle"
    /\ UNCHANGED input

NextCycle == CycleStart \/ CycleFetchData \/ CycleFetchChart \/ CycleClose

SpecCycle == Init /\ [][NextCycle]_vars

(***************************************************************************)
(* SpecNorm: fetch_data applied to each payload of IsPayload               *)
(***************************************************************************)
InitNorm ==
    /\ uid = Fresh.uid
    /\ token = Fresh.token
    /\ auth_token = Fresh.auth_token
    /\ api_url = Fresh.api_url
    /\ session = "none"
    /\ last_data = <<>>
    /\ nLogin = 0
    /\ nDetail = 0
    /\ nChart = 0
    /\ everLoggedIn = FALSE
    /\ authFailAt = -1
    /\ last = CallRecord("init", "", Fresh)
    /\ IsPayload(input)
    /\ pc = "idle"

NormFetch ==
    /\ nDetail < MaxNormCalls
    /\ FetchDataOp("S1", GoodLogin, DetailResp("data", "", input))
    /\ UNCHANGED <<input, pc>>

NextNorm == NormFetch

SpecNorm == InitNorm /\ [][NextNorm]_vars

(***************************************************************************)
(* process_chart_data (energy_common.py lines 96-148; simple_dashboard.py  *)
(* lines 89-162 is the same code but for the result without any series).   *)
(* A timestamp is held as minutes since midnight of the chart's date,      *)
(* dt_hours in minutes, an energy in watt-minutes (60000 to the kWh) and   *)
(* an amount of money in watt-minutes times hundredths of a cent per kWh,  *)
(* so that every column is an exact integer; the rounding of the floats is *)
(* not modelled. The *_kw display columns of lines 119-121 are left out.   *)
(***************************************************************************)
\* tariffs in hundredths of a cent per kWh
USAGE_TARIFF == 2618
FEEDIN_TARIFF == 500

\* `5.0 / 60.0` hours, in minutes
FirstDt == 5

Keys == {"pv_power", "battery_power", "meter_power", "load_power", "soc"}

\* pd.to_datetime of f"{date} {x}:00" for the times of day the inputs use
ToDatetime(ts) ==
    CASE ts = "10:00" -> 600
      [] ts = "10:05" -> 605
      [] ts = "12:00" -> 720

\* the frames of lines 105-111: a key with an empty list gives no frame
Columns(cj) == {k \in Keys : cj[k] # <<>>}

\* set_index("timestamp") of one frame
IndexOf(series) == [i \in DOMAIN series |-> ToDatetime(series[i][1])]

Duplicated(ix) == \E i, j \in DOMAIN ix : i < j /\ ix[i] = ix[j]

Labels(cj) == UNION {{ToDatetime(cj[k][i][1]) : i \in DOMAIN cj[k]} : k \in Keys}

\* the column of a frame at position i, NaN (filled with 0) without the frame
AtPosition(series, i) == IF series = <<>> THEN 0 ELSE series[i][2]

\* the column of a frame at label t, NaN (filled with 0) where it has none
AtLabel(series, t) ==
    IF \E i \in DOMAIN series : ToDatetime(series[i][1]) = t
    THEN series[CHOOSE i \in DOMAIN series : ToDatetime(series[i][1]) = t][2]
    ELSE 0

MergedRow(t, pv, b, m, l, soc) ==
    [timestamp |-> t, pv_power |-> pv, battery_power |-> b, meter_power |-> m,
     load_power |-> l, soc |-> soc]

RECURSIVE Ascending(_)
\* the labels of a set in increasing order
Ascending(S) ==
    IF S = {} THEN <<>>
    ELSE <<CHOOSE m \in S : \A x \in S : m <= x>>
         \o Ascending(S \ {CHOOSE m \in S : \A x \in S : m <= x})

RECURSIVE Insert(_, _)
Insert(sorted, row) ==
    IF sorted = <<>> THEN <<row>>
    ELSE IF sorted[Len(sorted)].timestamp <= row.timestamp THEN Append(sorted, row)
    ELSE Append(Insert(SubSeq(sorted, 1, Len(sorted) - 1), row), sorted[Len(sorted)])

RECURSIVE SortIndex(_)
\* sort_index(): rows in increasing order of timestamp, equal ones as they were
SortIndex(rows) ==
    IF rows = <<>> THEN <<>>
    ELSE Insert(SortIndex(SubSeq(rows, 1, Len(rows) - 1)), rows[Len(rows)])

\* pd.concat(axis=1) of frames whose indexes are all the same: no frame is
\* reindexed, the rows are put side by side and repeated labels stay
ConcatAligned(cj, ix) ==
    [i \in DOMAIN ix |->
        MergedRow(ix[i], AtPosition(cj.pv_power, i), AtPosition(cj.battery_power, i),
                  AtPosition(cj.meter_power, i), AtPosition(cj.load_power, i),
                  AtPosition(cj.soc, i))]

\* pd.concat(axis=1) of frames with different indexes, none with a repeated
\* label: the outer join on the union of the labels
ConcatOuter(cj, axis) ==
    [i \in DOMAIN axis |->
        MergedRow(axis[i], AtLabel(cj.pv_power, axis[i]), AtLabel(cj.battery_power, axis[i]),
                  AtLabel(cj.meter_power, axis[i]), AtLabel(cj.load_power, axis[i]),
                  AtLabel(cj.soc, axis[i]))]

Indexes(cj) == {IndexOf(cj[k]) : k \in Columns(cj)}

\* pd.concat raises InvalidIndexError when it has to reindex a frame whose
\* index repeats a label
ConcatRaises(cj) ==
    /\ Cardinality(Indexes(cj)) > 1
    /\ \E ix \in Indexes(cj) : Duplicated(ix)

\* line 116: pd.concat(data_frames, axis=1).sort_index().fillna(0)
Merge(cj) ==
    IF Cardinality(Indexes(cj)) = 1
    THEN SortIndex(ConcatAligned(cj, CHOOSE ix \in Indexes(cj) : TRUE))
    ELSE ConcatOuter(cj, Ascending(Labels(cj)))

\* a gap that is taken as five minutes whatever the timestamps
DtHours_fixed(rows, i) == FirstDt

\* lines 124-125: the gap to the previous row, five minutes for the first row
DtHours(rows, i) ==
    IF i = 1 THEN FirstDt ELSE rows[i].timestamp - rows[i - 1].timestamp

\* Series.clip(lower=0)
ClipLower0(x) == IF x < 0 THEN 0 ELSE x

\* a discharge column fed by negative battery power
BatteryDischarge_negative(row, dt) == ClipLower0(-row.battery_power) * dt

\* line 132: positive battery power of the chart is discharge
BatteryDischarge(row, dt) == ClipLower0(row.battery_power) * dt

\* line 133
BatteryCharge(row, dt) == ClipLower0(-row.battery_power) * dt

\* an import column fed by positive meter power
GridImport_positive(row, dt) == ClipLower0(row.meter_power) * dt

\* line 136: negative meter power of the chart is import
GridImport(row, dt) == ClipLower0(-row.meter_power) * dt

\* line 137
GridExport(row, dt) == ClipLower0(row.meter_power) * dt

\* the larger of the two energies
SolarToLoad_max(pv, load) == IF pv >= load THEN pv ELSE load

\* line 140: min(axis=1) of pv_energy_kwh and load_energy_kwh
SolarToLoad(pv, load) == IF pv <= load THEN pv ELSE load

\* an energy taken over the gap that follows the row
Energy_following(rows, i, p) ==
    p * (IF i < Len(rows) THEN rows[i + 1].timestamp - rows[i].timestamp ELSE FirstDt)

\* lines 128-129: power times the dt_hours of the same row
Energy(rows, i, p) == p * DtHours(rows, i)

\* lines 124-146 for one row
Derived(rows, i) ==
    [timestamp |-> rows[i].timestamp,
     pv_power |-> rows[i].pv_power,
     battery_power |-> rows[i].battery_power,
     meter_power |-> rows[i].meter_power,
     load_power |-> rows[i].load_power,
     soc |-> rows[i].soc,
     dt_hours |-> DtHours(rows, i),
     pv_energy_kwh |-> Energy(rows, i, rows[i].pv_power),
     load_energy_kwh |-> Energy(rows, i, rows[i].load_power),
     battery_discharge_kwh |-> BatteryDischarge(rows[i], DtHours(rows, i)),
     battery_charge_kwh |-> BatteryCharge(rows[i], DtHours(rows, i)),
     grid_import_kwh |-> GridImport(rows[i], DtHours(rows, i)),
     grid_export_kwh |-> GridExport(rows[i], DtHours(rows, i)),
     solar_to_load_kwh |-> SolarToLoad(Energy(rows, i, rows[i].pv_power),
                                       Energy(rows, i, rows[i].load_power))]

\* lines 141-146: the money columns of a row
Financial(r) ==
    [solar_benefit |-> r.solar_to_load_kwh * USAGE_TARIFF,
     battery_discharge_benefit |-> r.battery_discharge_kwh * USAGE_TARIFF,
     battery_charge_cost |-> r.battery_charge_kwh * FEEDIN_TARIFF,
     battery_net_benefit |-> r.battery_discharge_kwh * USAGE_TARIFF
                             - r.battery_charge_kwh * FEEDIN_TARIFF,
     export_income |-> r.grid_export_kwh * FEEDIN_TARIFF,
     grid_cost |-> r.grid_import_kwh * USAGE_TARIFF]

\* what process_chart_data hands back: None, an exception, or a DataFrame
\* with its columns and rows (no rows: the empty DataFrame)
NoFrame == [kind |-> "None", columns |-> {}, rows |-> <<>>]
EmptyFrame == [kind |-> "frame", columns |-> {}, rows |-> <<>>]
KeyError == [kind |-> "KeyError", columns |-> {}, rows |-> <<>>]
InvalidIndexError == [kind |-> "InvalidIndexError", columns |-> {}, rows |-> <<>>]

DataFrame(columns, rows) == [kind |-> "frame", columns |-> columns, rows |-> rows]

\* the columns lines 128-137 read without looking whether they are there
Required == {"pv_power", "load_power", "battery_power", "meter_power"}

\* lines 118-148, rows the merged frame of line 116
Compute(columns, rows) ==
    IF ~(Required \subseteq columns) THEN KeyError
    ELSE DataFrame(columns, [i \in DOMAIN rows |-> Derived(rows, i)])

\* process_chart_data(chart_json); chart_json is <<>> for None, and
\* without is the result of lines 113-114 (None in energy_common.py, an
\* empty DataFrame in simple_dashboard.py)
ProcessChartData(chart_json, without) ==
    IF chart_json = <<>> THEN NoFrame
    ELSE IF chart_json[1].error # None THEN NoFrame
    ELSE IF Columns(chart_json[1]) = {} THEN without
    ELSE IF ConcatRaises(chart_json[1]) THEN InvalidIndexError
    ELSE Compute(Columns(chart_json[1]), Merge(chart_json[1]))

(***************************************************************************)
(* The daily totals of the two renderers: render_dashboard                 *)
(* (eink_dashboard.py lines 116-300) and the script body of                *)
(* simple_dashboard.py (lines 172-387). realtime is <<>> for None.         *)
(***************************************************************************)
RECURSIVE Sum(_, _)
\* df[col].sum()
Sum(rows, col) ==
    IF rows = <<>> THEN 0
    ELSE Sum(SubSeq(rows, 1, Len(rows) - 1), col) + rows[Len(rows)][col]

RECURSIVE SumFinancial(_, _)
SumFinancial(rows, col) ==
    IF rows = <<>> THEN 0
    ELSE SumFinancial(SubSeq(rows, 1, Len(rows) - 1), col)
         + Financial(rows[Len(rows)])[col]

\* a total that adds up the generation column
SolarHomeKwh_generation(rows) == Sum(rows, "pv_energy_kwh")

\* eink_dashboard.py line 223, simple_dashboard.py line 294
SolarHomeKwh(rows) == Sum(rows, "solar_to_load_kwh")

\* eink_dashboard.py lines 219-239, simple_dashboard.py lines 189-204
Totals(rows) ==
    [pv_total |-> Sum(rows, "pv_energy_kwh"),
     load_total |-> Sum(rows, "load_energy_kwh"),
     solar_home_kwh |-> SolarHomeKwh(rows),
     batt_discharge |-> Sum(rows, "battery_discharge_kwh"),
     batt_charge |-> Sum(rows, "battery_charge_kwh"),
     import_total |-> Sum(rows, "grid_import_kwh"),
     export_total |-> Sum(rows, "grid_export_kwh"),
     solar_benefit |-> SumFinancial(rows, "solar_benefit"),
     batt_benefit |-> SumFinancial(rows, "battery_net_benefit"),
     export_earnings |-> SumFinancial(rows, "export_income"),
     net_grid_cost |-> SumFinancial(rows, "grid_cost")
                       - SumFinancial(rows, "export_income")]

\* df["soc"].iloc[-1]; KeyError for a frame without the column
LastSoc(df) ==
    IF "soc" \in df.columns THEN Ok(df.rows[Len(df.rows)].soc) ELSE Raised

\* eink_dashboard.py line 226
EinkCurrentSoc(realtime, df) ==
    IF realtime # <<>> /\ ~Failed(realtime[1])
    THEN Ok(realtime[1].battery_soc)
    ELSE LastSoc(df)

\* simple_dashboard.py line 196: a snapshot object is truthy, error or not
SimpleCurrentSoc(realtime, df) ==
    IF realtime # <<>> THEN Ok(realtime[1].battery_soc) ELSE LastSoc(df)

\* what a renderer ends up showing: live cards or placeholders, and the
\* daily totals, a "no data" text, or nothing at all after an exception
View(shown, live, soc, totals) ==
    [shown |-> shown, live |-> live, current_soc |-> soc, totals |-> totals]

NoView == View("nothing", FALSE, 0, Totals(<<>>))

\* `df is not None and not df.empty`
HasRows(df) == df.kind = "frame" /\ df.rows # <<>>

\* the totals section, soc the result of the current_soc expression; an
\* exception leaves the refresh without any output
ShowTotals(live, df, soc) ==
    IF ~soc.ok THEN View("exception", FALSE, 0, Totals(<<>>))
    ELSE View("totals", live, soc.val, Totals(df.rows))

\* a renderer that blanks both halves unless both are there
RenderDashboard_allOrNothing(realtime, df) ==
    IF HasRows(df) /\ realtime # <<>> /\ ~Failed(realtime[1])
    THEN ShowTotals(TRUE, df, EinkCurrentSoc(realtime, df))
    ELSE View("no chart data", FALSE, 0, Totals(<<>>))

\* render_dashboard(realtime, df, now): live cards at lines 173-208, totals
\* at lines 218-298
RenderDashboard(realtime, df) ==
    IF HasRows(df)
    THEN ShowTotals(realtime # <<>> /\ ~Failed(realtime[1]), df,
                    EinkCurrentSoc(realtime, df))
    ELSE View("no chart data", realtime # <<>> /\ ~Failed(realtime[1]), 0, Totals(<<>>))

\* simple_dashboard.py lines 186-387: live cards (line 223) and totals only
\* inside `if df is not None and not df.empty`
RenderSimple(realtime, df) ==
    IF HasRows(df)
    THEN ShowTotals(realtime # <<>>, df, SimpleCurrentSoc(realtime, df))
    ELSE View("no chart data", FALSE, 0, Totals(<<>>))

\* an exception of process_chart_data ends the refresh: caught at
\* eink_dashboard.py line 450, uncaught in the Streamlit script
RaisedFrame(df) == df.kind \notin {"None", "frame"}

(***************************************************************************)
(* Inputs of the chart pipeline                                            *)
(***************************************************************************)
T1 == "10:00"
T2 == "10:05"
T3 == "12:00"

\* the timestamps of a series: in order, out of order, one repeated, and
\* one with a gap of hours
InOrder    == <<T1, T2>>
OutOfOrder == <<T2, T1>>
Repeated   == <<T1, T1>>
WithGap    == <<T1, T2, T3>>
Single     == <<T1>>

SeriesOf(axis, values) == [i \in DOMAIN axis |-> <<axis[i], values[i]>>]

PvSeries ==
    {<<>>} \cup {SeriesOf(a, v) : a \in {InOrder, OutOfOrder, Repeated, WithGap, Single},
                                  v \in {<<1000, 1000, 1000>>, <<1000, 0, 2000>>}}
BatterySeries ==
    {<<>>} \cup {SeriesOf(a, v) : a \in {InOrder, Repeated, WithGap},
                                  v \in {<<600, 600, 600>>, <<-300, 600, -300>>}}
MeterSeries ==
    {<<>>} \cup {SeriesOf(a, v) : a \in {InOrder, Repeated, WithGap},
                                  v \in {<<500, -200, 500>>, <<-200, -200, 0>>}}
LoadSeries ==
    {<<>>} \cup {SeriesOf(a, v) : a \in {InOrder, Repeated, WithGap},
                                  v \in {<<400, 1200, 400>>, <<400, 400, 400>>}}
SocSeries ==
    {<<>>} \cup {SeriesOf(a, <<80, 81, 82>>) : a \in {InOrder, Repeated, WithGap}}

\* what fetch_sems_data / get_sems_data hand over: realtime r with a
\* chart_json that is None, a result with an error, or a result with its
\* five series
IsFetched(i, r) ==
    \/ i = [realtime |-> r, chart_json |-> <<>>]
    \/ i = [realtime |-> r,
            chart_json |-> <<[ChartResult EXCEPT !.error = "Unknown error"]>>]
    \/ \E pv \in PvSeries, b \in BatterySeries, m \in MeterSeries,
          l \in LoadSeries, soc \in SocSeries :
            i = [realtime |-> r,
                 chart_json |-> <<[error |-> None, pv_power |-> pv,
                                   battery_power |-> b, meter_power |-> m,
                                   load_power |-> l, soc |-> soc]>>]

\* what they hand over as realtime: None, a snapshot, a snapshot that
\* carries an error (its numeric fields at the defaults of the dataclass,
\* or as far as the parsing got before it raised)
Live55 ==
    [InverterData EXCEPT !.pv_power = 10000, !.load_power = 4000,
                         !.battery_power = -3000, !.battery_soc = 55]

Realtimes == {<<>>, <<Live55>>, <<Raise(InverterData)>>, <<Raise(Live55)>>}

(***************************************************************************)
(* SpecChart: what each dashboard makes of one fetched pair                *)
(* (realtime, chart_json)                                                  *)
(***************************************************************************)
Shown(op, df, view) == [op |-> op, df |-> df, view |-> view]

InitChart ==
    /\ uid = Fresh.uid
    /\ token = Fresh.token
    /\ auth_token = Fresh.auth_token
    /\ api_url = Fresh.api_url
    /\ session = "none"
    /\ last_data = <<>>
    /\ nLogin = 0
    /\ nDetail = 0
    /\ nChart = 0
    /\ everLoggedIn = FALSE
    /\ authFailAt = -1
    /\ last = Shown("fetched", NoFrame, NoView)
    /\ \E r \in Realtimes : IsFetched(input, r)
    /\ pc = "fetched"

Unused ==
    UNCHANGED <<uid, token, auth_token, api_url, session, last_data, nLogin,
                nDetail, nChart, everLoggedIn, authFailAt, input>>

\* eink_dashboard.py lines 428-430
EinkProcess ==
    /\ pc = "fetched"
    /\ last' = Shown("eink_process", ProcessChartData(input.chart_json, NoFrame), NoView)
    /\ pc' = "eink_processed"
    /\ Unused

\* eink_dashboard.py line 438; after an exception of line 430 the refresh
\* has gone to line 450 and nothing is rendered
EinkRender ==
    /\ pc = "eink_processed"
    /\ last' = Shown("eink_render", last.df,
                     IF RaisedFrame(last.df)
                     THEN View("exception", FALSE, 0, Totals(<<>>))
                     ELSE RenderDashboard(input.realtime, last.df))
    /\ pc' = "eink_rendered"
    /\ Unused

\* simple_dashboard.py lines 175-177
SimpleProcess ==
    /\ pc = "fetched"
    /\ last' = Shown("simple_process", ProcessChartData(input.chart_json, EmptyFrame),
                     NoView)
    /\ pc' = "simple_processed"
    /\ Unused

\* simple_dashboard.py lines 186-387
SimpleRender ==
    /\ pc = "simple_processed"
    /\ last' = Shown("simple_render", last.df,
                     IF RaisedFrame(last.df)
                     THEN View("exception", FALSE, 0, Totals(<<>>))
                     ELSE RenderSimple(input.realtime, last.df))
    /\ pc' = "simple_rendered"
    /\ Unused

NextChart == EinkProcess \/ EinkRender \/ SimpleProcess \/ SimpleRender

SpecChart == InitChart /\ [][NextChart]_vars

(***************************************************************************)
(* SpecRefresh: whole refresh cycles, from the construction of the client  *)
(* to the rendering, on the e-ink path (eink_dashboard.py main, lines      *)
(* 421-457, with fetch_sems_data of energy_common.py) and on the Streamlit *)
(* path (simple_dashboard.py, lines 65-87 and 172-387). The credentials    *)
(* and the station id are configured. pc is the path and the next step.    *)
(***************************************************************************)
Fetched(realtime, chart_json) == [realtime |-> realtime, chart_json |-> chart_json]

\* between two refresh cycles
Idle == <<"", "idle">>

InitRefresh ==
    /\ uid = Fresh.uid
    /\ token = Fresh.token
    /\ auth_token = Fresh.auth_token
    /\ api_url = Fresh.api_url
    /\ session = "none"
    /\ last_data = <<>>
    /\ nLogin = 0
    /\ nDetail = 0
    /\ nChart = 0
    /\ everLoggedIn = FALSE
    /\ authFailAt = -1
    /\ last = CallRecord("init", "", Fresh)
    /\ input = Fetched(<<>>, <<>>)
    /\ pc = Idle

\* energy_common.py line 79 / simple_dashboard.py line 79
RefreshStart ==
    /\ pc = Idle
    /\ NewClient
    /\ input' = Fetched(<<>>, <<>>)
    /\ \E path \in {"eink", "simple"} : pc' = <<path, "fetch_data">>

\* energy_common.py line 83 / simple_dashboard.py line 83
RefreshFetchData ==
    /\ pc[2] = "fetch_data"
    /\ \E dr \in DetailResponses :
          \E lr \in LoginResponsesFor("S1") : FetchDataOp("S1", lr, dr)
    /\ input' = Fetched(<<last'.data>>, <<>>)
    /\ pc' = <<pc[1], "fetch_chart_data">>

\* energy_common.py line 84 / simple_dashboard.py line 84; get_sems_data
\* returns from here, without a close()
RefreshFetchChart ==
    /\ pc[2] = "fetch_chart_data"
    /\ \E cr \in ChartResponses :
          \E lr \in LoginResponsesFor("S1") : FetchChartOp("S1", lr, cr)
    /\ input' = Fetched(input.realtime, <<last'.chart>>)
    /\ pc' = <<pc[1], IF pc[1] = "eink" THEN "close" ELSE "process">>

\* energy_common.py lines 89-90: the finally clause of fetch_sems_data
RefreshClose ==
    /\ pc = <<"eink", "close">>
    /\ CloseOp
    /\ pc' = <<"eink", "process">>
    /\ UNCHANGED input

Kept ==
    UNCHANGED <<uid, token, auth_token, api_url, session, last_data, nLogin,
                nDetail, nChart, everLoggedIn, authFailAt, input>>

\* eink_dashboard.py lines 428-430 / simple_dashboard.py lines 175-177
RefreshProcess ==
    /\ pc[2] = "process"
    /\ last' = Shown(IF pc[1] = "eink" THEN "eink_process" ELSE "simple_process",
                     ProcessChartData(input.chart_json,
                                      IF pc[1] = "eink" THEN NoFrame ELSE EmptyFrame),
                     NoView)
    /\ pc' = <<pc[1], "render">>
    /\ Kept

\* eink_dashboard.py line 438
RefreshRenderEink ==
    /\ pc = <<"eink", "render">>
    /\ last' = Shown("eink_render", last.df,
                     IF RaisedFrame(last.df)
                     THEN View("exception", FALSE, 0, Totals(<<>>))
                     ELSE RenderDashboard(input.realtime, last.df))
    /\ pc' = Idle
    /\ Kept

\* simple_dashboard.py lines 186-387
RefreshRenderSimple ==
    /\ pc = <<"simple", "render">>
    /\ last' = Shown("simple_render", last.df,
                     IF RaisedFrame(last.df)
                     THEN View("exception", FALSE, 0, Totals(<<>>))
                     ELSE RenderSimple(input.realtime, last.df))
    /\ pc' = Idle
    /\ Kept

NextRefresh ==
    \/ RefreshStart \/ RefreshFetchData \/ RefreshFetchChart \/ RefreshClose
    \/ RefreshProcess \/ RefreshRenderEink \/ RefreshRenderSimple

SpecRefresh == InitRefresh /\ [][NextRefresh]_vars

(***************************************************************************)
(* SpecAwait: a refresh cycle await by await. fetch_sems_data              *)
(* (energy_common.py lines 79-90) and get_sems_data (simple_dashboard.py   *)
(* lines 79-85) run one coroutine that awaits fetch_data and then          *)
(* fetch_chart_data; inside them the suspension points are the POST        *)
(* (response head) and response.text() (response body) of login() and of   *)
(* the telemetry request. input holds the path of the cycle and the        *)
(* requests that are outstanding on the HTTP session; pc is the call the   *)
(* coroutine is in and the await it is suspended at.                       *)
(***************************************************************************)
Cycle(path, inflight) == [path |-> path, inflight |-> inflight]

\* what the coroutine has just done; pre is the session state at the start
\* of the login() or of the telemetry request it belongs to
Step(op, at, pre) == [op |-> op, at |-> at, pre |-> pre]

\* `session.post(...)`: a request goes out
Send(inflight, r) == Append(inflight, r)

\* a response that stays outstanding after its body has been awaited
Done_leaves(inflight, r) == inflight

\* the body of the response has been read, or the await has raised: the
\* request is over
Done(inflight, r) == SelectSeq(inflight, LAMBDA x : x # r)

\* a login that takes the regional URL as soon as the response head is there
AtResponse_writesUrl(st) == [st EXCEPT !.api_url = Regional]

\* login(), lines 131-136: nothing is assigned between the two awaits
AtResponse(st) == st

SetAuth(st) ==
    /\ uid' = st.uid
    /\ token' = st.token
    /\ auth_token' = st.auth_token
    /\ api_url' = st.api_url

\* where the coroutine goes when a call has returned
After(call, path) ==
    IF call = "fetch_data" THEN <<"fetch_chart_data", "start">>
    ELSE IF path = "eink" THEN <<"", "close">> ELSE Idle

InitAwait ==
    /\ uid = Fresh.uid
    /\ token = Fresh.token
    /\ auth_token = Fresh.auth_token
    /\ api_url = Fresh.api_url
    /\ session = "none"
    /\ last_data = <<>>
    /\ nLogin = 0
    /\ nDetail = 0
    /\ nChart = 0
    /\ everLoggedIn = FALSE
    /\ authFailAt = -1
    /\ last = Step("init", "", Fresh)
    /\ input = Cycle("eink", <<>>)
    /\ pc = Idle

\* energy_common.py line 79 / simple_dashboard.py line 79
AwaitCycleStart ==
    /\ pc = Idle
    /\ NewClient
    /\ \E path \in {"eink", "simple"} : input' = Cycle(path, <<>>)
    /\ pc' = <<"fetch_data", "start">>

\* sems_client.py lines 285-305 / 471-481: the telemetry request goes out
SendTelemetry(call, inflight) ==
    /\ session' = EnsureSession(session)
    /\ input' = Cycle(input.path, Send(inflight, call))
    /\ nDetail' = nDetail + (IF call = "fetch_data" THEN 1 ELSE 0)
    /\ nChart' = nChart + (IF call = "fetch_chart_data" THEN 1 ELSE 0)
    /\ pc' = <<call, "post">>

\* fetch_data lines 273-305, fetch_chart_data lines 459-481, up to the first
\* await that suspends: the POST of login() (line 131) or the telemetry POST
AwaitEnter ==
    /\ pc[2] = "start"
    /\ IF ShouldLogin(uid)
       THEN /\ session' = EnsureSession(session)
            /\ input' = Cycle(input.path, Send(input.inflight, "login"))
            /\ nLogin' = nLogin + 1
            /\ last' = Step("login", "start", AuthState)
            /\ pc' = <<pc[1], "login:post">>
            /\ UNCHANGED <<nDetail, nChart>>
       ELSE /\ SendTelemetry(pc[1], input.inflight)
            /\ last' = Step(pc[1], "start", AuthState)
            /\ UNCHANGED nLogin
    /\ UNCHANGED <<uid, token, auth_token, api_url, last_data, everLoggedIn,
                   authFailAt>>

\* login() lines 131-135: the response head has arrived
LoginResponse ==
    /\ pc[2] = "login:post"
    /\ SetAuth(AtResponse(AuthState))
    /\ pc' = <<pc[1], "login:text">>
    /\ last' = Step("login", "login:post", last.pre)
    /\ UNCHANGED <<session, last_data, nLogin, nDetail, nChart, everLoggedIn,
                   authFailAt, input>>

\* login() lines 136-188: the body has arrived; parsing, the assignments and
\* the return follow without another await, and so does the telemetry POST
\* of a fetch whose login succeeded
LoginBody ==
    /\ pc[2] = "login:text"
    /\ \E lr \in {r \in LoginResponses : r.kind # "transport"} :
          LET l == Login(AuthState, lr)
          IN  /\ SetAuth(l.st)
              /\ everLoggedIn' = (everLoggedIn \/ l.ok)
              /\ last' = Step(IF l.ok THEN "login_ok" ELSE "login_failed",
                              "login:text", last.pre)
              /\ IF l.ok
                 THEN SendTelemetry(pc[1], Done(input.inflight, "login"))
                 ELSE /\ input' = Cycle(input.path, Done(input.inflight, "login"))
                      /\ pc' = After(pc[1], input.path)
                      /\ UNCHANGED <<session, nDetail, nChart>>
    /\ UNCHANGED <<last_data, nLogin, authFailAt>>

\* login() lines 190-195: the await raises (aiohttp.ClientError, a timeout);
\* login() returns failure and the fetch returns its error record
LoginInterrupted ==
    /\ pc[2] \in {"login:post", "login:text"}
    /\ input' = Cycle(input.path, Done(input.inflight, "login"))
    /\ last' = Step("login_interrupted", pc[2], last.pre)
    /\ pc' = After(pc[1], input.path)
    /\ UNCHANGED <<uid, token, auth_token, api_url, session, last_data, nLogin,
                   nDetail, nChart, everLoggedIn, authFailAt>>

\* the coroutine is cancelled while login() is suspended: CancelledError is no
\* Exception, so neither login() (line 193), fetch_data nor fetch_sems_data
\* (line 86) catches it; the finally clause of fetch_sems_data closes
LoginCancelled ==
    /\ pc[2] \in {"login:post", "login:text"}
    /\ input' = Cycle(input.path, Done(input.inflight, "login"))
    /\ last' = Step("login_cancelled", pc[2], last.pre)
    /\ session' = IF input.path = "eink" /\ session = "open" THEN "closed" ELSE session
    /\ pc' = Idle
    /\ UNCHANGED <<uid, token, auth_token, api_url, last_data, nLogin, nDetail,
                   nChart, everLoggedIn, authFailAt>>

\* sems_client.py lines 300-304 / 477-481: the response head has arrived
TelemetryResponse ==
    /\ pc[2] = "post"
    /\ pc' = <<pc[1], "text">>
    /\ last' = Step(pc[1], "post", last.pre)
    /\ UNCHANGED <<uid, token, auth_token, api_url, session, last_data, nLogin,
                   nDetail, nChart, everLoggedIn, authFailAt, input>>

\* sems_client.py lines 305-432 / 482-540: the body has arrived (or the
\* await has raised, response kind "transport") and the call returns
TelemetryBody ==
    /\ pc[2] = "text"
    /\ input' = Cycle(input.path, Done(input.inflight, pc[1]))
    /\ pc' = After(pc[1], input.path)
    /\ last' = Step(pc[1], "text", last.pre)
    /\ IF pc[1] = "fetch_data"
       THEN \E dr \in DetailResponses :
              /\ last_data' = IF Stores(dr, DetailOutcome(dr))
                              THEN <<DetailOutcome(dr)>> ELSE last_data
              /\ authFailAt' = IF authFailAt = -1 /\ dr.kind = "hasError"
                                  /\ dr.msg = AuthExpired
                               THEN nLogin ELSE authFailAt
       ELSE \E cr \in {ChartResp("data", "", <<>>), ChartResp("hasError", AuthExpired, <<>>)} :
              /\ authFailAt' = IF authFailAt = -1 /\ cr.kind = "hasError"
                               THEN nLogin ELSE authFailAt
              /\ UNCHANGED last_data
    /\ UNCHANGED <<uid, token, auth_token, api_url, session, nLogin, nDetail,
                   nChart, everLoggedIn>>

\* energy_common.py lines 89-90
AwaitClose ==
    /\ pc = <<"", "close">>
    /\ session' = IF session = "open" THEN "closed" ELSE session
    /\ last' = Step("close", "", AuthState)
    /\ pc' = Idle
    /\ UNCHANGED <<uid, token, auth_token, api_url, last_data, nLogin, nDetail,
                   nChart, everLoggedIn, authFailAt, input>>

NextAwait ==
    \/ AwaitCycleStart \/ AwaitEnter \/ LoginResponse \/ LoginBody
    \/ LoginInterrupted \/ LoginCancelled \/ TelemetryResponse
    \/ TelemetryBody \/ AwaitClose

SpecAwait == InitAwait /\ [][NextAwait]_vars

(***************************************************************************)
(* Properties                                                              *)
(***************************************************************************)
Fetches == {"fetch_data", "fetch_chart_data"}

\* the error indicator of the result the last call returned
ErrorOf(c) == IF c.op = "fetch_data" THEN c.data.error_message ELSE c.chart.error

TokenHeld(st) == st.token \notin {None, ""}

\* n kW, in tenths of a watt
FromKW(n) == n * 1000 * 10

\* C1: a login() that returns failure leaves token, uid, auth header blob and
\* base URL exactly as they were before the call. (A fetch whose login fails
\* returns at once, so the state after the fetch is the state login() left.)
C1_FailedLoginWritesNothing ==
    (last.op \in Fetches /\ last.logins = 1 /\ ~last.loginOk) => AuthState = last.pre

C3_PostOnlyAfterSuccessfulLogin ==
    /\ last.posts = 1 => last.authedAtPost
    /\ (last.logins = 1 /\ ~last.loginOk) => last.posts = 0

\* C4: fetch_data and fetch_chart_data called with an empty station id return
\* an error and send no request, neither a login nor a telemetry POST,
\* whatever the session state.
C4_MissingStationNoNetwork ==
    (last.op \in Fetches /\ last.station = "") =>
        /\ ErrorOf(last) # None
        /\ last.logins = 0
        /\ last.posts = 0
        /\ AuthState = last.pre

C4_Witness ==
    /\ last.op \in Fetches
    /\ last.station = ""
    /\ ~UidTruthy(uid)
    /\ session = "closed"

\* C5: a fetch sends a login request only when no token is held; with a
\* token held, no fetch logs in.
C5_LoginOnlyWithoutToken ==
    (last.op \in Fetches /\ TokenHeld(last.pre)) => last.logins = 0

\* C6: a snapshot made from Shape A has battery power +X for charge X > 0 and
\* discharge 0, -Y for discharge Y > 0 and charge 0, and grid power +G for
\* import G > 0 and export 0, -E for export E > 0 and import 0 (kW to W).
C6_ShapeASigns ==
    (last.op = "fetch_data" /\ ~Failed(last.data) /\ UseHomeKit(input)) =>
        LET hk == input.homeKit
            c  == Get(hk.pCharge, Num(0)).n
            dc == Get(hk.pDisCharge, Num(0)).n
            g  == Get(hk.pGrid, Num(0)).n
            ge == Get(hk.pGridExport, Num(0)).n
        IN  /\ (c > 0 /\ dc = 0) => last.data.battery_power = FromKW(c)
            /\ (dc > 0 /\ c = 0) => last.data.battery_power = -FromKW(dc)
            /\ (g > 0 /\ ge = 0) => last.data.grid_power = FromKW(g)
            /\ (ge > 0 /\ g = 0) => last.data.grid_power = -FromKW(ge)

C6_Witness ==
    /\ last.op = "fetch_data"
    /\ ~Failed(last.data)
    /\ input.homeKit = HomeKit("dict", Num(0), Num(1), Num(0), Num(4), Num(1))
    /\ last.data.battery_power = -FromKW(1)
    /\ last.data.grid_power = -FromKW(4)

\* C7: a snapshot made from Shape B, Shape A absent, has battery power +500
\* for status 1 and magnitude "500(W)", -500 for status -1, and 0 for status 0
\* whatever the magnitude string; grid power follows the same rule with
\* gridStatus.
C7_ShapeBSigns ==
    (last.op = "fetch_data" /\ UsePowerflow(input)) =>
        LET pf == input.powerflow
        IN  /\ pf.betteryStatus = 0 => last.data.battery_power = 0
            /\ pf.gridStatus = 0 => last.data.grid_power = 0
            /\ (~Failed(last.data) /\ pf.bettery = Str(W500)) =>
                    /\ pf.betteryStatus = 1  => last.data.battery_power = 5000
                    /\ pf.betteryStatus = -1 => last.data.battery_power = -5000
            /\ (~Failed(last.data) /\ pf.grid = Str(W500)) =>
                    /\ pf.gridStatus = 1  => last.data.grid_power = 5000
                    /\ pf.gridStatus = -1 => last.data.grid_power = -5000

C7_Witness ==
    /\ last.op = "fetch_data"
    /\ input.homeKit = NoHomeKit
    /\ input.powerflow.bettery = Str(W500)
    /\ input.powerflow.betteryStatus = -1
    /\ input.powerflow.gridStatus = 1
    /\ last.data.battery_power = -5000
    /\ last.data.grid_power = 5000
    /\ ~Failed(last.data)

\* C8: with a non-empty Shape A section the record fetch_data returns is the
\* one it returns for the same payload without its Shape B section: no Shape B
\* field changes any value of it.
C8_ShapeAPrecedence ==
    (last.op = "fetch_data" /\ UseHomeKit(input)) =>
        last.data = Normalize([input EXCEPT !.powerflow = NoPowerflow])

C8_Witness ==
    /\ last.op = "fetch_data"
    /\ ~Failed(last.data)
    /\ UseHomeKit(input)
    /\ input.powerflow.shape = "dict"
    /\ input.powerflow.soc = Num(55)
    /\ input.powerflow.betteryStatus = 1
    /\ last.data.battery_power = -FromKW(1)
    /\ last.data.battery_soc = 40

\* the payload carries a state of charge in the soc section and in powerflow
BothSocs(plant) ==
    /\ plant.soc.t = "num"
    /\ plant.powerflow.shape = "dict"
    /\ plant.powerflow.soc.t = "num"

\* C9, as claimed: when the payload carries a state of charge in powerflow
\* and in the soc section, the snapshot has the powerflow one, with or without
\* Shape A power data.
C9_ShapeBSocWins ==
    (last.op = "fetch_data" /\ ~Failed(last.data) /\ BothSocs(input)) =>
        last.data.battery_soc = input.powerflow.soc.n

\* C9, amended: when the payload carries a state of charge in powerflow and in
\* the soc section, the snapshot has the powerflow one if Shape A (homeKit) is
\* absent or empty, and the one of the soc section if Shape A is present.
C9_ShapeBSocWinsWithoutShapeA ==
    (last.op = "fetch_data" /\ ~Failed(last.data) /\ BothSocs(input)) =>
        last.data.battery_soc =
            IF UseHomeKit(input) THEN input.soc.n ELSE input.powerflow.soc.n

C9_Witness ==
    /\ last.op = "fetch_data"
    /\ ~Failed(last.data)
    /\ BothSocs(input)
    /\ ~UseHomeKit(input)
    /\ input.soc.n = 40
    /\ last.data.battery_soc = 55

\* the magnitudes that carry no parseable leading number
Unparseable == {Str(WNone), Str(WDot), Str(W1p2p3), Str(<<>>), Null, Num(500)}

\* C10: a payload whose only malformed field is one power magnitude gives a
\* snapshot without an error indicator, with 0 for that quantity.
C10_MalformedFieldGivesZero ==
    (/\ last.op = "fetch_data"
     /\ input.pac = Num(3)
     /\ UsePowerflow(input)
     /\ input.powerflow.pv = Str(W500)
     /\ input.powerflow.grid = Str(W500)
     /\ input.powerflow.load = Str(W500)
     /\ input.powerflow.bettery \in Unparseable) =>
        /\ ~Failed(last.data)
        /\ last.data.battery_power = 0

\* C11: a snapshot returned without an error indicator has generation power
\* (pv_power) >= 0 and load power >= 0, whichever shape it was made from.
C11_GenerationAndLoadNonNegative ==
    (last.op = "fetch_data" /\ ~Failed(last.data)) =>
        /\ last.data.pv_power >= 0
        /\ last.data.load_power >= 0

\* the chart result handed to process_chart_data, when there is one
ChartJson == input.chart_json[1]

\* process_chart_data has just been applied to a chart result without an error
Processed ==
    /\ last.op \in {"eink_process", "simple_process"}
    /\ input.chart_json # <<>>
    /\ ChartJson.error = None

\* ... and has returned an interval series
Framed == Processed /\ last.df.kind = "frame"

Rows == last.df.rows

\* C12 as the claim states it: a row with battery power +P (P > 0)
\* contributes charge energy P x dt and discharge energy 0.
C12_PositiveBatteryIsCharge ==
    Framed =>
        \A i \in DOMAIN Rows :
            Rows[i].battery_power > 0 =>
                /\ Rows[i].battery_charge_kwh = Rows[i].battery_power * Rows[i].dt_hours
                /\ Rows[i].battery_discharge_kwh = 0

\* C12, amended: a row with battery power +P (P > 0) contributes discharge
\* energy P x dt and charge energy 0, and a row with battery power -P
\* contributes charge energy P x dt and discharge energy 0: positive battery
\* power of the chart never adds to charge energy.
C12_PositiveBatteryIsDischarge ==
    Framed =>
        \A i \in DOMAIN Rows :
            /\ Rows[i].battery_power > 0 =>
                /\ Rows[i].battery_discharge_kwh = Rows[i].battery_power * Rows[i].dt_hours
                /\ Rows[i].battery_charge_kwh = 0
            /\ Rows[i].battery_power < 0 =>
                /\ Rows[i].battery_charge_kwh = (-Rows[i].battery_power) * Rows[i].dt_hours
                /\ Rows[i].battery_discharge_kwh = 0

\* two samples 5 minutes apart at a constant +600 W: the interval between
\* them has discharge 3000 watt-minutes (0.05 kWh) and charge 0
C12_Witness ==
    /\ Framed
    /\ ChartJson.battery_power = SeriesOf(InOrder, <<600, 600>>)
    /\ Len(Rows) = 2
    /\ Rows[2].timestamp - Rows[1].timestamp = 5
    /\ Rows[2].battery_discharge_kwh = 3000
    /\ Rows[2].battery_charge_kwh = 0

\* C13 as the claim states it: grid import energy = max(grid power, 0) x dt
\* and grid export energy = max(-grid power, 0) x dt in every row.
C13_PositiveGridIsImport ==
    Framed =>
        \A i \in DOMAIN Rows :
            /\ Rows[i].grid_import_kwh =
                  (IF Rows[i].meter_power > 0 THEN Rows[i].meter_power ELSE 0)
                  * Rows[i].dt_hours
            /\ Rows[i].grid_export_kwh =
                  (IF Rows[i].meter_power < 0 THEN -Rows[i].meter_power ELSE 0)
                  * Rows[i].dt_hours

\* C13, amended: grid import energy = max(-grid power, 0) x dt and grid
\* export energy = max(grid power, 0) x dt in every row: in the chart series
\* negative grid power is import and positive grid power is export, the
\* opposite of the snapshot's sign convention.
C13_NegativeGridIsImport ==
    Framed =>
        \A i \in DOMAIN Rows :
            /\ Rows[i].grid_import_kwh =
                  (IF Rows[i].meter_power < 0 THEN -Rows[i].meter_power ELSE 0)
                  * Rows[i].dt_hours
            /\ Rows[i].grid_export_kwh =
                  (IF Rows[i].meter_power > 0 THEN Rows[i].meter_power ELSE 0)
                  * Rows[i].dt_hours

C13_Witness ==
    /\ Framed
    /\ ChartJson.meter_power = SeriesOf(InOrder, <<500, -200>>)
    /\ Len(Rows) = 2
    /\ Rows[1].grid_export_kwh = 2500 /\ Rows[1].grid_import_kwh = 0
    /\ Rows[2].grid_import_kwh = 1000 /\ Rows[2].grid_export_kwh = 0

\* C14: for a chart result whose four power series all have points,
\* process_chart_data yields rows whose timestamps are strictly increasing
\* (so none is repeated) and are the union of the timestamps of the series,
\* also when a series lists a timestamp twice or out of order.
C14_StrictlyIncreasingUnion ==
    (Processed /\ Required \subseteq Columns(ChartJson)) =>
        /\ last.df.kind = "frame"
        /\ \A i, j \in DOMAIN Rows : i < j => Rows[i].timestamp < Rows[j].timestamp
        /\ {Rows[i].timestamp : i \in DOMAIN Rows} = Labels(ChartJson)

\* no series of the chart result lists a timestamp twice
NoneRepeated(cj) == \A k \in Keys : ~Duplicated(IndexOf(cj[k]))

\* C15: for a chart result with at least one series that has points (none
\* listing a timestamp twice), process_chart_data returns a merged series in
\* which each metric is 0 at every timestamp its input lacks, also when the
\* metric has no points at all, and its input value elsewhere.
C15_ZeroFillWhateverIsMissing ==
    (Processed /\ Columns(ChartJson) # {} /\ NoneRepeated(ChartJson)) =>
        /\ last.df.kind = "frame"
        /\ Len(Rows) = Cardinality(Labels(ChartJson))
        /\ \A i \in DOMAIN Rows : \A k \in Keys :
              Rows[i][k] = AtLabel(ChartJson[k], Rows[i].timestamp)

\* C16: the first row's dt is five minutes and every later row's dt is its
\* timestamp minus the previous row's timestamp, whatever the gap.
C16_DtIsGapToPreviousRow ==
    Framed =>
        \A i \in DOMAIN Rows :
            Rows[i].dt_hours =
                IF i = 1 THEN 5 ELSE Rows[i].timestamp - Rows[i - 1].timestamp

\* a gap of 115 minutes (10:05 to 12:00) after one of 5 minutes
C16_Witness ==
    /\ Framed
    /\ Len(Rows) = 3
    /\ Rows[1].dt_hours = 5
    /\ Rows[2].dt_hours = 5
    /\ Rows[3].timestamp = 720
    /\ Rows[3].dt_hours = 115

\* the signed battery and grid energy of a row
BatteryEnergy(r) == r.battery_discharge_kwh - r.battery_charge_kwh
GridEnergy(r) == r.grid_export_kwh - r.grid_import_kwh

\* C17 as the claim states it: the energy of every non-final sample i is
\* power[i] x (t[i+1] - t[i]), for generation, load, battery and grid.
C17_LeftRectangle ==
    Framed =>
        \A i \in DOMAIN Rows :
            i < Len(Rows) =>
                LET gap == Rows[i + 1].timestamp - Rows[i].timestamp
                IN  /\ Rows[i].pv_energy_kwh = Rows[i].pv_power * gap
                    /\ Rows[i].load_energy_kwh = Rows[i].load_power * gap
                    /\ BatteryEnergy(Rows[i]) = Rows[i].battery_power * gap
                    /\ GridEnergy(Rows[i]) = Rows[i].meter_power * gap

\* C17, amended: the power of sample i is held over the gap that precedes
\* it: the energy of every sample after the first is
\* power[i] x (t[i] - t[i-1]), and that of the first sample is power[1] x 5
\* minutes, for generation, load, battery and grid alike.
C17_RightRectangle ==
    Framed =>
        \A i \in DOMAIN Rows :
            LET gap == IF i = 1 THEN 5 ELSE Rows[i].timestamp - Rows[i - 1].timestamp
            IN  /\ Rows[i].pv_energy_kwh = Rows[i].pv_power * gap
                /\ Rows[i].load_energy_kwh = Rows[i].load_power * gap
                /\ BatteryEnergy(Rows[i]) = Rows[i].battery_power * gap
                /\ GridEnergy(Rows[i]) = Rows[i].meter_power * gap

\* generation 1000, 0, 2000 W at 10:00, 10:05, 12:00: the 115 minutes go to
\* the 2000 W of the last sample, none to the 0 W of the one before
C17_Witness ==
    /\ Framed
    /\ ChartJson.pv_power = SeriesOf(WithGap, <<1000, 0, 2000>>)
    /\ Len(Rows) = 3
    /\ Rows[2].pv_energy_kwh = 0
    /\ Rows[3].pv_energy_kwh = 2000 * 115

\* C18: in every row solar self-consumption energy is the minimum of the
\* row's generation energy and load energy, so at most either of them.
C18_SelfConsumptionIsRowMinimum ==
    Framed =>
        \A i \in DOMAIN Rows :
            /\ Rows[i].solar_to_load_kwh <= Rows[i].pv_energy_kwh
            /\ Rows[i].solar_to_load_kwh <= Rows[i].load_energy_kwh
            /\ Rows[i].solar_to_load_kwh \in
                  {Rows[i].pv_energy_kwh, Rows[i].load_energy_kwh}

\* a row limited by its load and a row limited by its generation
C18_Witness ==
    /\ Framed
    /\ \E i, j \in DOMAIN Rows :
          /\ Rows[i].load_energy_kwh < Rows[i].pv_energy_kwh
          /\ Rows[i].solar_to_load_kwh = Rows[i].load_energy_kwh
          /\ Rows[i].solar_to_load_kwh > 0
          /\ Rows[j].pv_energy_kwh < Rows[j].load_energy_kwh
          /\ Rows[j].solar_to_load_kwh = Rows[j].pv_energy_kwh

\* a renderer has just shown the daily totals
Rendered ==
    /\ last.op \in {"eink_render", "simple_render"}
    /\ last.view.shown = "totals"

\* the ledger render_dashboard shows for a chart result with these series
LedgerOf(realtime, pv, b, m, l, soc) ==
    RenderDashboard(realtime,
                    ProcessChartData(<<[error |-> None, pv_power |-> pv,
                                        battery_power |-> b, meter_power |-> m,
                                        load_power |-> l, soc |-> soc]>>, NoFrame))

Exceeds(view) ==
    /\ view.shown = "totals"
    /\ \/ view.totals.solar_home_kwh > view.totals.pv_total
       \/ view.totals.solar_home_kwh > view.totals.load_total

\* C19 as the claim states it: there are interval series whose ledger has
\* solar self-consumption above min(total generation, total load) (here:
\* among the series of the inputs, with the live snapshot at hand).
C19_SomeLedgerExceedsTheBound ==
    \E pv \in PvSeries \ {<<>>}, b \in BatterySeries \ {<<>>},
       m \in MeterSeries \ {<<>>}, l \in LoadSeries \ {<<>>}, soc \in SocSeries :
        ~ConcatRaises([error |-> None, pv_power |-> pv, battery_power |-> b,
                       meter_power |-> m, load_power |-> l, soc |-> soc])
        /\ Exceeds(LedgerOf(input.realtime, pv, b, m, l, soc))

\* C19, amended: the ledger of every interval series has solar
\* self-consumption <= min(total generation, total load); summing the
\* per-interval minima can only give less than the minimum of the totals,
\* never more.
C19_AggregateBoundHolds ==
    Rendered =>
        /\ last.view.totals.solar_home_kwh <= last.view.totals.pv_total
        /\ last.view.totals.solar_home_kwh <= last.view.totals.load_total

\* a ledger whose sum of minima is below the minimum of its totals
C19_Witness ==
    /\ Rendered
    /\ last.view.totals.solar_home_kwh > 0
    /\ last.view.totals.solar_home_kwh < last.view.totals.pv_total
    /\ last.view.totals.solar_home_kwh < last.view.totals.load_total

\* C20: in both renderers the state-of-charge of the ledger is the live
\* snapshot's when a snapshot is present and carries no error, and that of
\* the last row of the interval series otherwise.
C20_LedgerSocLiveElseLastRow ==
    Rendered =>
        last.view.current_soc =
            IF input.realtime # <<>> /\ ~Failed(input.realtime[1])
            THEN input.realtime[1].battery_soc
            ELSE Rows[Len(Rows)].soc

\* a renderer has just drawn what it draws for the fetched pair
Drawn == last.op \in {"eink_render", "simple_render"} /\ last.view.shown # "exception"

\* C21: when the snapshot carries an error indicator, no renderer shows its
\* power fields on the live cards.
C21_ErrorSnapshotNotShownLive ==
    (Drawn /\ input.realtime # <<>> /\ Failed(input.realtime[1])) => ~last.view.live

\* the e-ink display has just been drawn at the end of a refresh cycle
EinkDrawn == last.op = "eink_render" /\ last.view.shown # "exception"

SnapshotFailed == Failed(input.realtime[1])

ChartFailed == input.chart_json[1].error # None

C22_LiveWithoutLedger ==
    EinkDrawn /\ ChartFailed /\ last.view.live /\ last.view.shown = "no chart data"

\* a refresh cycle has ended
CycleEnded == pc = Idle /\ last.op \in {"eink_render", "simple_render"}

\* C29: at the end of a refresh cycle the HTTP session of the client that the
\* cycle constructed is not open, on the e-ink path and on the Streamlit path.
C29_SessionClosedAtCycleEnd == CycleEnded => session # "open"

\* close() has just run on a session that held a token
ClosedWithToken == last.op = "close" /\ TokenHeld(last.pre)

\* a fetch has just run on a client that close() had left logged in
FetchAfterClose ==
    /\ last.op \in Fetches
    /\ last.preSession = "closed"
    /\ UidTruthy(last.pre.uid)
    /\ ~StationMissing(last.station)

\* C25 as stated: after close() on a session that held a token the token is
\* absent, and the next fetch on that session logs in again.
C25_CloseInvalidatesToken ==
    /\ ClosedWithToken => ~TokenHeld(AuthState)
    /\ FetchAfterClose => last.logins = 1

\* C25: close() closes the HTTP session and nothing else: token, uid, auth
\* blob and base URL are what they were, and the next fetch on a session that
\* is logged in reopens the HTTP session and sends its request under the held
\* login, without logging in again.
C25_CloseKeepsToken ==
    /\ [](last.op = "close" => (AuthState = last.pre /\ session # "open"))
    /\ [](FetchAfterClose =>
            /\ last.logins = 0
            /\ last.posts = 1
            /\ last.session = "open"
            /\ last.postHeader = TokenString(last.pre.auth_token))
    /\ [][last'.op = "close" => AuthState' = AuthState]_vars

C25_Witness ==
    /\ FetchAfterClose
    /\ TokenHeld(last.pre)
    /\ last.logins = 0
    /\ last.posts = 1
    /\ AuthState = last.pre

\* a fetch has just sent its telemetry request
Posted == last.op \in Fetches /\ last.posts = 1

\* C26: a successful login whose response carries a regional API URL makes it
\* the base URL, one without it leaves the base URL as it was; every telemetry
\* request goes to the base URL the session holds, and once a login has
\* succeeded no later call changes the base URL.
C26_RegionalUrlSticks ==
    /\ []((last.op \in Fetches /\ last.loginOk) =>
            /\ last.loginApi # "" =>
                  (api_url = last.loginApi /\ (Posted => last.postUrl = last.loginApi))
            /\ last.loginApi = "" => api_url = last.pre.api_url)
    /\ [](Posted => last.postUrl = api_url)
    /\ [][(everLoggedIn /\ last'.op # "init") => api_url' = api_url]_vars

\* a later call of a session whose login returned the regional URL sends its
\* request there
C26_Witness ==
    /\ Posted
    /\ last.logins = 0
    /\ everLoggedIn
    /\ last.postUrl = Regional
    /\ last.postUrl # SEMS_API_BASE

\* C27: a fetch_data or fetch_chart_data call sends at most one POST to its
\* telemetry endpoint, whatever the response, and none to the other endpoint.
C27_AtMostOnePostPerCall ==
    /\ [](last.op \in Fetches => last.posts <= 1)
    /\ [][last'.op = "fetch_data" =>
            (nDetail' - nDetail = last'.posts /\ nDetail' - nDetail <= 1
             /\ nChart' = nChart)]_vars
    /\ [][last'.op = "fetch_chart_data" =>
            (nChart' - nChart = last'.posts /\ nChart' - nChart <= 1
             /\ nDetail' = nDetail)]_vars

\* a fetch whose single request failed
C27_Witness == Posted /\ ErrorOf(last) # None /\ last.logins = 0

\* C28: a request carries the pre-login blob exactly when no login has
\* succeeded on the session: every login request does (a login is only sent
\* before the first success), and a telemetry request does exactly when the
\* session has not logged in.
C28_HeaderTellsLoginState ==
    last.op \in Fetches =>
        /\ last.logins = 1 => last.loginHeader = DefaultToken
        /\ last.posts = 1 => (last.postHeader = DefaultToken <=> ~last.authedAtPost)

\* C30: last_data is None or a snapshot without an error indicator; a
\* fetch_data that returns an error-flagged record leaves it alone, one that
\* returns without an error makes its result the new last_data, and no other
\* call touches it.
C30_LastDataIsLastGoodSnapshot ==
    /\ [](last_data = <<>> \/ ~Failed(last_data[1]))
    /\ [][last'.op = "fetch_data" =>
            IF Failed(last'.data) THEN last_data' = last_data
                                  ELSE last_data' = <<last'.data>>]_vars
    /\ [][last'.op \in {"fetch_chart_data", "close"} => last_data' = last_data]_vars

\* a failing fetch_data after a good one, the good snapshot still there
C30_Witness ==
    /\ last.op = "fetch_data"
    /\ Failed(last.data)
    /\ last.posts = 1
    /\ last_data # <<>>
    /\ ~Failed(last_data[1])

\* C23: at most one request of the session (login, snapshot POST or chart
\* POST) is outstanding at any moment of a refresh cycle.
C23_AtMostOneRequestOutstanding == Len(input.inflight) <= 1

\* the chart request is outstanding, alone, after the login and the snapshot
\* request of the same cycle have come and gone
C23_Witness ==
    /\ input.inflight = <<"fetch_chart_data">>
    /\ nLogin = 1
    /\ nDetail = 1
    /\ nChart = 1

\* login() is suspended at its POST or at the read of the body
LoginSuspended == pc[2] \in {"login:post", "login:text"}

\* C24: while login() is suspended at the POST or at the response body it has
\* written nothing, and a login that is cancelled or whose await raises there
\* leaves token, uid, auth blob and base URL exactly as they were before it.
C24_InterruptedLoginWritesNothing ==
    /\ LoginSuspended => AuthState = last.pre
    /\ last.op \in {"login_cancelled", "login_interrupted"} => AuthState = last.pre

\* a login cancelled at the read of the body, on a session that an earlier
\* login of the same cycle had left with something written
C24_Witness ==
    /\ last.op = "login_cancelled"
    /\ last.at = "login:text"
    /\ last.pre # Fresh
    /\ AuthState = last.pre
====
